---- MODULE Spec2Model ----
(***************************************************************************)
(* Model of imagefiltercpp.cpp: the main thread (configuration, startup,   *)
(* shutdown), the processing thread running process(), and the export      *)
(* callback invoked on threads of the export chain.                        *)
(*                                                                         *)
(* The IFF SDK is not part of the program.  Its calls are modelled by      *)
(* what the program can rely on at the call site:                          *)
(*   - get_import_buffer returns a buffer nobody holds, or nullptr;        *)
(*   - push_import_buffer takes the buffer, which later goes back to the   *)
(*     pool of the import chain;                                           *)
(*   - execute("off") keeps new export callbacks from starting; the        *)
(*     program does not wait for invocations that are already running      *)
(*     (the result handler it passes is empty), so they run on;            *)
(*   - destroying the chain objects (chains.clear()) returns only when no  *)
(*     export callback is running.                                         *)
(* chains["x"] on a registry without key x inserts a null pointer and      *)
(* dereferences it: undefined behaviour, modelled as a choice between the  *)
(* process crashing and the call having no effect.                         *)
(***************************************************************************)
EXTENDS Integers, Sequences, FiniteSets, TLC

\* ---------------------------------------------------------------- bounds
NumBuffers == 2      \* buffers in the import chain's pool
NumProducers == 2    \* export-callback invocations that can run at once
MaxFrames == 2       \* frames the export chain delivers in one run

Buffers == 1..NumBuffers
Producers == 1..NumProducers
Frames == 1..MaxFrames
nullptr == 0

\* capacity the import chain reports for a buffer (buffer_size, line 161-162)
BufferSize(b) == 2 + (b % 2)
\* sizes of exported frames (size, line 159)
FrameSizes == {2, 3}

\* ------------------------------------------------------------ configuration
\* The configuration file as main() looks at it (lines 60-91, 96-106).
ChainIds == {"import", "export"}
Configs ==
    [parses : BOOLEAN, hasChains : BOOLEAN, chainsIsArray : BOOLEAN,
     chainIds : SUBSET ChainIds, hasIFF : BOOLEAN]

\* mutant: the test for the IFF section is missing
ConfigError_NoIFFTest(c) ==
    IF ~c.parses THEN "Invalid configuration provided: parse error"
    ELSE IF ~c.hasChains THEN "Invalid configuration provided: missing chains section"
    ELSE IF ~c.chainsIsArray THEN "Invalid configuration provided: section chains must be an array"
    ELSE IF c.chainIds = {} THEN "Invalid configuration provided: section chains must not be empty"
    ELSE ""

\* The message main() writes to std::cerr for a configuration (without the
\* back quotes of the source text, and with "parse error" for e.what()), ""
\* if there is none.
ConfigError(c) ==
    IF ~c.parses THEN "Invalid configuration provided: parse error"
    ELSE IF ~c.hasChains THEN "Invalid configuration provided: missing chains section"
    ELSE IF ~c.chainsIsArray THEN "Invalid configuration provided: section chains must be an array"
    ELSE IF c.chainIds = {} THEN "Invalid configuration provided: section chains must not be empty"
    ELSE IF ~c.hasIFF THEN "Invalid configuration provided: missing IFF section"
    ELSE ""

EXIT_SUCCESS == "EXIT_SUCCESS"
EXIT_FAILURE == "EXIT_FAILURE"
Running == "running"

\* ---------------------------------------------------------------- state
VARIABLES
    config,            \* content of imagefiltercpp.json
    mainPc,            \* position of the main thread
    exitCode,          \* Running, EXIT_SUCCESS, EXIT_FAILURE or "crashed"
    cerr,              \* messages written to std::cerr
    iffState,          \* "none", "initialized", "finalized"
    chains,            \* ids of the registry that map to a chain object
    nullChains,        \* ids of the registry that map to a null pointer
    mutex,             \* holder of the mutex
    processing_queue,  \* sequence of [buffer, frame]
    stop_processing,
    workerPc,          \* position of the processing thread
    workerEntry,       \* the entry the processing thread took from the queue
    cb,                \* per producer: position and locals of the export callback
    callbackSet,       \* set_export_callback has registered the callback
    exporting,         \* the exporter is "on"
    pool,              \* buffers the import chain can lease
    sink,              \* buffers pushed into the import chain, not yet recycled
    content,           \* per buffer: [frame, bytes, drawn], what memcpy and the crosshair left
    nextFrame,         \* number of the next exported frame
    outcome,           \* history: how the callback invocation of each frame ended
    enqueued,          \* history: frames in the order they were emplaced
    pushed,            \* history: frames in the order they were pushed
    log,               \* history: iff::log(error) messages of the callback
    stopMark,          \* history: when stop was set, the lengths of enqueued and
                       \* pushed and the frames copied but not yet emplaced
    metadata,          \* [width, height, padding] of the frame whose bytes are followed
    image              \* the bytes of that frame's buffer: [pc, copied, painted]

vars == <<config, mainPc, exitCode, cerr, iffState, chains, nullChains, mutex,
          processing_queue, stop_processing, workerPc, workerEntry, cb,
          callbackSet, exporting, pool, sink, content, nextFrame, outcome,
          enqueued, pushed, log, stopMark, metadata, image>>

mainVars == <<mainPc, exitCode, cerr, iffState>>
registryVars == <<chains, nullChains>>
queueVars == <<processing_queue, stop_processing>>
workerVars == <<workerPc, workerEntry>>
exportVars == <<callbackSet, exporting, nextFrame>>
bufferVars == <<pool, sink, content>>
historyVars == <<outcome, enqueued, pushed, log, stopMark>>
pixelVars == <<metadata, image>>

\* holders of the mutex
Nobody == <<"nobody", 0>>
MainThread == <<"main", 0>>
Worker == <<"worker", 0>>
Callback(p) == <<"callback", p>>

NoEntry == [buffer |-> nullptr, frame |-> 0]
IdleCallback == [pc |-> "idle", buffer |-> nullptr, size |-> 0, frame |-> 0]

\* The process runs: main() has not returned and nothing crashed.
Alive == exitCode = Running

\* No frame's bytes are followed: Spec keeps of a buffer only which frame was
\* copied into it and whether the crosshair was drawn (content); the bytes
\* are followed in TransformSpec.
NoMetadata == [width |-> 0, height |-> 0, padding |-> 0]
NoImage == [pc |-> "none", copied |-> 0, painted |-> <<>>]

\* The state in which main() starts.
StartState ==
    /\ mainPc = "config"
    /\ exitCode = Running
    /\ cerr = <<>>
    /\ iffState = "none"
    /\ chains = {}
    /\ nullChains = {}
    /\ mutex = Nobody
    /\ processing_queue = <<>>
    /\ stop_processing = FALSE
    /\ workerPc = "not_started"
    /\ workerEntry = NoEntry
    /\ cb = [p \in Producers |-> IdleCallback]
    /\ callbackSet = FALSE
    /\ exporting = FALSE
    /\ pool = Buffers
    /\ sink = {}
    /\ content = [b \in Buffers |-> [frame |-> 0, bytes |-> 0, drawn |-> FALSE]]
    /\ nextFrame = 1
    /\ outcome = [f \in Frames |-> "none"]
    /\ enqueued = <<>>
    /\ pushed = <<>>
    /\ log = <<>>
    /\ stopMark = [set |-> FALSE, enqueued |-> 0, pushed |-> 0, copied |-> {}]

Init ==
    /\ config \in Configs
    /\ StartState
    /\ metadata = NoMetadata
    /\ image = NoImage

\* ------------------------------------------------------------ registry
\* chains[id] (std::map::operator[]): the ids mapped to a null pointer after
\* the lookup; a missing key is inserted with a null std::shared_ptr.
LookupInserts(id) == IF id \in chains THEN nullChains ELSE nullChains \cup {id}

\* chains[id]->... dereferences a chain object.
HasChain(id) == id \in chains

Crashed == "crashed"

\* ------------------------------------------------------------ main thread
\* lines 60-91: parse and validate the configuration
MainConfig ==
    /\ Alive /\ mainPc = "config"
    /\ IF ConfigError(config) # ""
       THEN /\ cerr' = Append(cerr, ConfigError(config))
            /\ exitCode' = EXIT_FAILURE
            /\ mainPc' = "exited"
       ELSE /\ mainPc' = "initialize"
            /\ UNCHANGED <<cerr, exitCode>>
    /\ UNCHANGED <<config, pixelVars, iffState, registryVars, mutex, queueVars, workerVars, cb,
                   exportVars, bufferVars, historyVars>>

\* line 93: iff::initialize
MainInitialize ==
    /\ Alive /\ mainPc = "initialize"
    /\ iffState' = "initialized"
    /\ mainPc' = "build_chains"
    /\ UNCHANGED <<config, pixelVars, exitCode, cerr, registryVars, mutex, queueVars, workerVars,
                   cb, exportVars, bufferVars, historyVars>>

\* lines 95-106: one chain object per element of the chains array, keyed by id
MainBuildChains ==
    /\ Alive /\ mainPc = "build_chains"
    /\ chains' = config.chainIds
    /\ mainPc' = "start_worker"
    /\ UNCHANGED <<config, pixelVars, exitCode, cerr, iffState, nullChains, mutex, queueVars,
                   workerVars, cb, exportVars, bufferVars, historyVars>>

\* line 156: std::thread running process()
MainStartWorker ==
    /\ Alive /\ mainPc = "start_worker"
    /\ workerPc' = "lock"
    /\ mainPc' = "set_callback"
    /\ UNCHANGED <<config, pixelVars, exitCode, cerr, iffState, registryVars, mutex, queueVars,
                   workerEntry, cb, exportVars, bufferVars, historyVars>>

\* line 158: chains["export"]->set_export_callback
MainSetCallback ==
    /\ Alive /\ mainPc = "set_callback"
    /\ nullChains' = LookupInserts("export")
    /\ \/ /\ HasChain("export")
          /\ callbackSet' = TRUE
          /\ mainPc' = "execute_on"
          /\ UNCHANGED exitCode
       \/ /\ ~HasChain("export")
          /\ mainPc' = "execute_on"
          /\ UNCHANGED <<callbackSet, exitCode>>
       \/ /\ ~HasChain("export")
          /\ exitCode' = Crashed
          /\ UNCHANGED <<callbackSet, mainPc>>
    /\ UNCHANGED <<config, pixelVars, cerr, iffState, chains, mutex, queueVars, workerVars, cb,
                   exporting, nextFrame, bufferVars, historyVars>>

\* line 184: chains["export"]->execute(exporter on)
MainExecuteOn ==
    /\ Alive /\ mainPc = "execute_on"
    /\ nullChains' = LookupInserts("export")
    /\ \/ /\ HasChain("export")
          /\ exporting' = TRUE
          /\ mainPc' = "getchar"
          /\ UNCHANGED exitCode
       \/ /\ ~HasChain("export")
          /\ mainPc' = "getchar"
          /\ UNCHANGED <<exporting, exitCode>>
       \/ /\ ~HasChain("export")
          /\ exitCode' = Crashed
          /\ UNCHANGED <<exporting, mainPc>>
    /\ UNCHANGED <<config, pixelVars, cerr, iffState, chains, mutex, queueVars, workerVars, cb,
                   callbackSet, nextFrame, bufferVars, historyVars>>

\* lines 186-187: std::getchar returns
MainGetchar ==
    /\ Alive /\ mainPc = "getchar"
    /\ mainPc' = "execute_off"
    /\ UNCHANGED <<config, pixelVars, exitCode, cerr, iffState, registryVars, mutex, queueVars,
                   workerVars, cb, exportVars, bufferVars, historyVars>>

\* line 189: chains["export"]->execute(exporter off)
MainExecuteOff ==
    /\ Alive /\ mainPc = "execute_off"
    /\ nullChains' = LookupInserts("export")
    /\ \/ /\ HasChain("export")
          /\ exporting' = FALSE
          /\ mainPc' = "lock"
          /\ UNCHANGED exitCode
       \/ /\ ~HasChain("export")
          /\ mainPc' = "lock"
          /\ UNCHANGED <<exporting, exitCode>>
       \/ /\ ~HasChain("export")
          /\ exitCode' = Crashed
          /\ UNCHANGED <<exporting, mainPc>>
    /\ UNCHANGED <<config, pixelVars, cerr, iffState, chains, mutex, queueVars, workerVars, cb,
                   callbackSet, nextFrame, bufferVars, historyVars>>

\* mutant: the scoped_lock of line 191 is missing
MainLock_NoLock ==
    /\ Alive /\ mainPc = "lock"
    /\ mainPc' = "set_stop"
    /\ UNCHANGED <<config, pixelVars, exitCode, cerr, iffState, registryVars, mutex, queueVars,
                   workerVars, cb, exportVars, bufferVars, historyVars>>

\* line 191: std::scoped_lock lock(mutex)
MainLock ==
    /\ Alive /\ mainPc = "lock"
    /\ mutex = Nobody
    /\ mutex' = MainThread
    /\ mainPc' = "set_stop"
    /\ UNCHANGED <<config, pixelVars, exitCode, cerr, iffState, registryVars, queueVars,
                   workerVars, cb, exportVars, bufferVars, historyVars>>

\* lines 192-193: stop_processing = true; the lock is released at the brace
MainSetStop ==
    /\ Alive /\ mainPc = "set_stop"
    /\ stop_processing' = TRUE
    /\ mutex' = Nobody
    /\ stopMark' = [set |-> TRUE, enqueued |-> Len(enqueued), pushed |-> Len(pushed),
                    copied |-> {cb[p].frame : p \in {q \in Producers : cb[q].pc = "lock"}}]
    /\ mainPc' = "notify"
    /\ UNCHANGED <<config, pixelVars, exitCode, cerr, iffState, registryVars, processing_queue,
                   workerVars, cb, exportVars, bufferVars, outcome, enqueued, pushed, log>>

\* cv.notify_all(): a thread blocked in cv.wait is woken
NotifyAll(pc) == IF pc = "waiting" THEN "woken" ELSE pc

\* line 194: cv.notify_all()
MainNotify ==
    /\ Alive /\ mainPc = "notify"
    /\ workerPc' = NotifyAll(workerPc)
    /\ mainPc' = "join"
    /\ UNCHANGED <<config, pixelVars, exitCode, cerr, iffState, registryVars, mutex, queueVars,
                   workerEntry, cb, exportVars, bufferVars, historyVars>>

\* mutant: main goes on without waiting for the processing thread
MainJoin_NoWait ==
    /\ Alive /\ mainPc = "join"
    /\ mainPc' = "clear"
    /\ UNCHANGED <<config, pixelVars, exitCode, cerr, iffState, registryVars, mutex, queueVars,
                   workerVars, cb, exportVars, bufferVars, historyVars>>

\* line 195: processing_thread.join() returns once process() has returned
MainJoin ==
    /\ Alive /\ mainPc = "join"
    /\ workerPc = "done"
    /\ mainPc' = "clear"
    /\ UNCHANGED <<config, pixelVars, exitCode, cerr, iffState, registryVars, mutex, queueVars,
                   workerVars, cb, exportVars, bufferVars, historyVars>>

\* No export callback is running.
CallbacksIdle == \A p \in Producers : cb[p].pc = "idle"

\* line 197: chains.clear() destroys the chain objects
MainClear ==
    /\ Alive /\ mainPc = "clear"
    /\ CallbacksIdle
    /\ chains' = {}
    /\ nullChains' = {}
    /\ mainPc' = "finalize"
    /\ UNCHANGED <<config, pixelVars, exitCode, cerr, iffState, mutex, queueVars, workerVars, cb,
                   exportVars, bufferVars, historyVars>>

\* line 199: iff::finalize()
MainFinalize ==
    /\ Alive /\ mainPc = "finalize"
    /\ iffState' = "finalized"
    /\ mainPc' = "return"
    /\ UNCHANGED <<config, pixelVars, exitCode, cerr, registryVars, mutex, queueVars, workerVars,
                   cb, exportVars, bufferVars, historyVars>>

\* line 201: return EXIT_SUCCESS
MainReturn ==
    /\ Alive /\ mainPc = "return"
    /\ exitCode' = EXIT_SUCCESS
    /\ mainPc' = "exited"
    /\ UNCHANGED <<config, pixelVars, cerr, iffState, registryVars, mutex, queueVars, workerVars,
                   cb, exportVars, bufferVars, historyVars>>

\* ------------------------------------------------------- processing thread
\* std::queue: front(), pop(), emplace()
\* mutant: the newest entry is taken first
QueueFront_Newest(q) == q[Len(q)]
QueueFront(q) == Head(q)
\* mutant: pop() leaves the entry in the queue
QueuePop_Keeps(q) == q
QueuePop(q) == Tail(q)
QueueEmplace(q, e) == Append(q, e)

\* lines 117 and 149: the inner loop is left with the queue empty, and only
\* then the stop flag is read
\* mutant: the stop flag is read before the queue is drained
CanReturn_BeforeDrain == stop_processing
CanReturn == processing_queue = <<>> /\ stop_processing

\* line 114: std::unique_lock lock(mutex)
WorkerLock ==
    /\ Alive /\ workerPc = "lock"
    /\ mutex = Nobody
    /\ mutex' = Worker
    /\ workerPc' = "top"
    /\ UNCHANGED <<config, pixelVars, mainVars, registryVars, queueVars, workerEntry, cb,
                   exportVars, bufferVars, historyVars>>

\* mutant: lock.unlock() of line 121 is missing
WorkerPop_KeepsLock ==
    /\ Alive /\ workerPc = "top"
    /\ processing_queue # <<>>
    /\ workerEntry' = QueueFront(processing_queue)
    /\ processing_queue' = QueuePop(processing_queue)
    /\ workerPc' = "transform"
    /\ UNCHANGED <<config, pixelVars, mainVars, registryVars, mutex, stop_processing, cb,
                   exportVars, bufferVars, historyVars>>

\* lines 117-121: front(), pop(), lock.unlock()
WorkerPop ==
    /\ Alive /\ workerPc = "top"
    /\ processing_queue # <<>>
    /\ workerEntry' = QueueFront(processing_queue)
    /\ processing_queue' = QueuePop(processing_queue)
    /\ mutex' = Nobody
    /\ workerPc' = "transform"
    /\ UNCHANGED <<config, pixelVars, mainVars, registryVars, stop_processing, cb, exportVars,
                   bufferVars, historyVars>>

\* lines 123-145: draw the crosshair into the buffer
WorkerTransform ==
    /\ Alive /\ workerPc = "transform"
    /\ content' = [content EXCEPT ![workerEntry.buffer].drawn = TRUE]
    /\ workerPc' = "push"
    /\ UNCHANGED <<config, pixelVars, mainVars, registryVars, mutex, queueVars, workerEntry, cb,
                   exportVars, pool, sink, historyVars>>

\* line 146: chains["import"]->push_import_buffer
WorkerPush ==
    /\ Alive /\ workerPc = "push"
    /\ HasChain("import")
    /\ nullChains' = LookupInserts("import")
    /\ sink' = sink \cup {workerEntry.buffer}
    /\ pushed' = Append(pushed, workerEntry.frame)
    /\ workerPc' = "relock"
    /\ UNCHANGED <<config, pixelVars, mainVars, chains, mutex, queueVars, workerEntry, cb,
                   exportVars, pool, content, outcome, enqueued, log, stopMark>>

\* line 147: lock.lock(); the entry's locals go out of scope at line 148
WorkerRelock ==
    /\ Alive /\ workerPc = "relock"
    /\ mutex = Nobody
    /\ mutex' = Worker
    /\ workerEntry' = NoEntry
    /\ workerPc' = "top"
    /\ UNCHANGED <<config, pixelVars, mainVars, registryVars, queueVars, cb, exportVars,
                   bufferVars, historyVars>>

\* lines 149-152: return; the unique_lock releases the mutex
WorkerReturn ==
    /\ Alive /\ workerPc = "top"
    /\ CanReturn
    /\ mutex' = Nobody
    /\ workerPc' = "done"
    /\ UNCHANGED <<config, pixelVars, mainVars, registryVars, queueVars, workerEntry, cb,
                   exportVars, bufferVars, historyVars>>

\* line 153: cv.wait(lock) releases the mutex and blocks
WorkerWait ==
    /\ Alive /\ workerPc = "top"
    /\ processing_queue = <<>>
    /\ ~stop_processing
    /\ mutex' = Nobody
    /\ workerPc' = "waiting"
    /\ UNCHANGED <<config, pixelVars, mainVars, registryVars, queueVars, workerEntry, cb,
                   exportVars, bufferVars, historyVars>>

\* line 153: cv.wait may wake without a notification
WorkerSpuriousWake ==
    /\ Alive /\ workerPc = "waiting"
    /\ workerPc' = "woken"
    /\ UNCHANGED <<config, pixelVars, mainVars, registryVars, mutex, queueVars, workerEntry, cb,
                   exportVars, bufferVars, historyVars>>

\* line 153: cv.wait re-acquires the mutex and returns, back to line 117
WorkerWake ==
    /\ Alive /\ workerPc = "woken"
    /\ mutex = Nobody
    /\ mutex' = Worker
    /\ workerPc' = "top"
    /\ UNCHANGED <<config, pixelVars, mainVars, registryVars, queueVars, workerEntry, cb,
                   exportVars, bufferVars, historyVars>>

\* ---------------------------------------------------------- export callback
\* mutant: a buffer of exactly the frame's size is rejected
Fits_Strict(capacity, size) == capacity > size
\* line 165: buffer_size >= size
Fits(capacity, size) == capacity >= size

\* mutant: the test for nullptr is missing
AfterLease_NoNullTest(b, size) == IF Fits(BufferSize(b), size) THEN "copy" ELSE "log"
\* mutant: the memcpy of line 167 is not done before the emplace
AfterLease_SkipsCopy(b, size) ==
    IF b = nullptr THEN "idle"
    ELSE IF Fits(BufferSize(b), size) THEN "lock" ELSE "log"
\* lines 163, 165, 174: where the callback goes with the buffer it got
AfterLease(b, size) ==
    IF b = nullptr THEN "idle"
    ELSE IF Fits(BufferSize(b), size) THEN "copy" ELSE "log"

\* The export chain invokes the callback with a frame (line 159).
CallbackBegin(p) ==
    /\ Alive /\ callbackSet /\ exporting
    /\ cb[p].pc = "idle"
    /\ nextFrame <= MaxFrames
    /\ \E size \in FrameSizes :
          cb' = [cb EXCEPT ![p] = [pc |-> "lease", buffer |-> nullptr,
                                   size |-> size, frame |-> nextFrame]]
    /\ nextFrame' = nextFrame + 1
    /\ UNCHANGED <<config, pixelVars, mainVars, registryVars, mutex, queueVars, workerVars,
                   callbackSet, exporting, bufferVars, historyVars>>

\* lines 161-165, 174: chains["import"]->get_import_buffer and the two tests
CallbackLease(p) ==
    /\ Alive /\ cb[p].pc = "lease"
    /\ nullChains' = LookupInserts("import")
    /\ \/ /\ HasChain("import")
          /\ \E b \in pool \cup {nullptr} :
                /\ pool' = pool \ {b}
                /\ IF AfterLease(b, cb[p].size) = "idle"
                   THEN /\ cb' = [cb EXCEPT ![p] = IdleCallback]
                        /\ outcome' = [outcome EXCEPT ![cb[p].frame] = "no_buffer"]
                   ELSE /\ cb' = [cb EXCEPT ![p].buffer = b,
                                            ![p].pc = AfterLease(b, cb[p].size)]
                        /\ UNCHANGED outcome
          /\ UNCHANGED exitCode
       \/ /\ ~HasChain("import")
          /\ cb' = [cb EXCEPT ![p] = IdleCallback]
          /\ outcome' = [outcome EXCEPT ![cb[p].frame] = "no_chain"]
          /\ UNCHANGED <<pool, exitCode>>
       \/ /\ ~HasChain("import")
          /\ exitCode' = Crashed
          /\ UNCHANGED <<pool, cb, outcome>>
    /\ UNCHANGED <<config, pixelVars, mainPc, cerr, iffState, chains, mutex, queueVars,
                   workerVars, exportVars, sink, content, enqueued, pushed, log,
                   stopMark>>

\* line 167: std::memcpy(buffer, data, size)
CallbackCopy(p) ==
    /\ Alive /\ cb[p].pc = "copy"
    /\ content' = [content EXCEPT ![cb[p].buffer] =
                      [frame |-> cb[p].frame, bytes |-> cb[p].size, drawn |-> FALSE]]
    /\ cb' = [cb EXCEPT ![p].pc = "lock"]
    /\ UNCHANGED <<config, pixelVars, mainVars, registryVars, mutex, queueVars, workerVars,
                   exportVars, pool, sink, historyVars>>

\* line 169: std::scoped_lock lock(mutex)
CallbackLock(p) ==
    /\ Alive /\ cb[p].pc = "lock"
    /\ mutex = Nobody
    /\ mutex' = Callback(p)
    /\ cb' = [cb EXCEPT ![p].pc = "emplace"]
    /\ UNCHANGED <<config, pixelVars, mainVars, registryVars, queueVars, workerVars, exportVars,
                   bufferVars, historyVars>>

\* lines 170-171: processing_queue.emplace(buffer, metadata); the lock is
\* released at the brace
CallbackEmplace(p) ==
    /\ Alive /\ cb[p].pc = "emplace"
    /\ processing_queue' = QueueEmplace(processing_queue,
                                        [buffer |-> cb[p].buffer, frame |-> cb[p].frame])
    /\ mutex' = Nobody
    /\ cb' = [cb EXCEPT ![p].pc = "notify"]
    /\ enqueued' = Append(enqueued, cb[p].frame)
    /\ UNCHANGED <<config, pixelVars, mainVars, registryVars, stop_processing, workerVars,
                   exportVars, bufferVars, outcome, pushed, log, stopMark>>

\* line 172: cv.notify_all(), and the callback returns
CallbackNotify(p) ==
    /\ Alive /\ cb[p].pc = "notify"
    /\ workerPc' = NotifyAll(workerPc)
    /\ cb' = [cb EXCEPT ![p] = IdleCallback]
    /\ outcome' = [outcome EXCEPT ![cb[p].frame] = "enqueued"]
    /\ UNCHANGED <<config, pixelVars, mainVars, registryVars, mutex, queueVars, workerEntry,
                   exportVars, bufferVars, enqueued, pushed, log, stopMark>>

\* mutant: the message holds the frame size only
ErrorMessage_SizeOnly(capacity, size) == [capacity |-> size, size |-> size]
\* lines 176-178: the message holds buffer_size and size
ErrorMessage(capacity, size) == [capacity |-> capacity, size |-> size]

\* mutant: the error path throws out of the callback instead of logging,
\* which terminates the process
CallbackLog_Throws(p) ==
    /\ Alive /\ cb[p].pc = "log"
    /\ exitCode' = Crashed
    /\ UNCHANGED <<config, pixelVars, mainPc, cerr, iffState, registryVars, mutex, queueVars,
                   workerVars, cb, exportVars, bufferVars, historyVars>>

\* lines 176-178: iff::log(error, ...)
CallbackLog(p) ==
    /\ Alive /\ cb[p].pc = "log"
    /\ log' = Append(log, ErrorMessage(BufferSize(cb[p].buffer), cb[p].size))
    /\ cb' = [cb EXCEPT ![p].pc = "release"]
    /\ UNCHANGED <<config, pixelVars, mainVars, registryVars, mutex, queueVars, workerVars,
                   exportVars, bufferVars, outcome, enqueued, pushed, stopMark>>

\* line 179: chains["import"]->release_buffer, and the callback returns
CallbackRelease(p) ==
    /\ Alive /\ cb[p].pc = "release"
    /\ HasChain("import")
    /\ nullChains' = LookupInserts("import")
    /\ pool' = pool \cup {cb[p].buffer}
    /\ cb' = [cb EXCEPT ![p] = IdleCallback]
    /\ outcome' = [outcome EXCEPT ![cb[p].frame] = "mismatch"]
    /\ UNCHANGED <<config, pixelVars, mainVars, chains, mutex, queueVars, workerVars,
                   exportVars, sink, content, enqueued, pushed, log, stopMark>>

\* ------------------------------------------------------------ import chain
\* line 146: the import chain is done with a pushed buffer and takes it back
\* into its pool
SinkRecycle(b) ==
    /\ Alive /\ HasChain("import")
    /\ b \in sink
    /\ sink' = sink \ {b}
    /\ pool' = pool \cup {b}
    /\ UNCHANGED <<config, pixelVars, mainVars, registryVars, mutex, queueVars, workerVars, cb,
                   exportVars, content, historyVars>>

\* ------------------------------------------------------------ specification
MainStep ==
    \/ MainConfig \/ MainInitialize \/ MainBuildChains \/ MainStartWorker
    \/ MainSetCallback \/ MainExecuteOn \/ MainGetchar \/ MainExecuteOff
    \/ MainLock \/ MainSetStop \/ MainNotify \/ MainJoin \/ MainClear
    \/ MainFinalize \/ MainReturn

WorkerStep ==
    \/ WorkerLock \/ WorkerPop \/ WorkerTransform \/ WorkerPush \/ WorkerRelock
    \/ WorkerReturn \/ WorkerWait \/ WorkerWake

CallbackStep(p) ==
    \/ CallbackLease(p) \/ CallbackCopy(p) \/ CallbackLock(p) \/ CallbackEmplace(p)
    \/ CallbackNotify(p) \/ CallbackLog(p) \/ CallbackRelease(p)

Next ==
    \/ MainStep
    \/ WorkerStep
    \/ WorkerSpuriousWake
    \/ \E p \in Producers : CallbackBegin(p) \/ CallbackStep(p)
    \/ \E b \in Buffers : SinkRecycle(b)

Spec == Init /\ [][Next]_vars

\* Fair scheduling of the threads; std::getchar returning is up to the user.
MainFair ==
    \/ MainConfig \/ MainInitialize \/ MainBuildChains \/ MainStartWorker
    \/ MainSetCallback \/ MainExecuteOn \/ MainExecuteOff
    \/ MainLock \/ MainSetStop \/ MainNotify \/ MainJoin \/ MainClear
    \/ MainFinalize \/ MainReturn

FairSpec ==
    /\ Spec
    /\ WF_vars(MainFair)
    /\ WF_vars(WorkerStep)
    /\ \A p \in Producers : WF_vars(CallbackStep(p))

\* ------------------------------------------------- the bytes of one frame
\* TransformSpec follows the bytes of one exported frame through memcpy
\* (line 167), the two loops of the crosshair (lines 123-144) and
\* push_import_buffer (line 146), for frames of many shapes.
\*
\* uint32_t is modelled with WordBits bits instead of 32: the wrap-around of
\* width / 2 - 2, width / 2 - 100, height / 2 - 2 and height / 2 - 100 is the
\* same for every word wide enough that half a word plus 100 does not
\* overflow, which holds for 10 bits as for 32.  stride and the offsets are
\* computed in size_t (bpp is a size_t), where they do not wrap.
WordBits == 10
Modulus == 2 ^ WordBits
Wrap(x) == x % Modulus

\* constexpr size_t bpp = 3 (line 125)
bpp == 3

\* widths and heights: around the values at which a loop starts to wrap or to
\* run, the 640x480 frame, and the largest value of the word
Dims == {0, 1, 3, 4, 5, 199, 200, 201, 480, 640, Modulus - 1}
Paddings == {0, 1, Modulus - 1}
Metadatas == [width : Dims, height : Dims, padding : Paddings]

\* line 126
Stride(m) == m.width * bpp + m.padding

\* size of the exported frame in bytes (size, line 159)
FrameBytes(m) == m.height * Stride(m)

\* what the exporter put at an offset of the frame, and what a leased buffer
\* holds at an offset nothing was written to
ExportedByte(o) == 1 + (o % 200)
StaleByte == 254

\* mutant: the loop variable is a signed int, the start does not wrap
LoopRange_Signed(center, half) == (center - half) .. (center + half - 1)

\* for(uint32_t v = center - half; v < center + half; ++v): the values v takes
LoopRange(center, half) == Wrap(center - half) .. (Wrap(center + half) - 1)

\* pixels <<x, y>> of the loop nest of lines 127-135 and of lines 136-144
VerticalBar(m) ==
    {<<x, y>> : x \in LoopRange(m.width \div 2, 2), y \in LoopRange(m.height \div 2, 100)}
HorizontalBar(m) ==
    {<<x, y>> : x \in LoopRange(m.width \div 2, 100), y \in LoopRange(m.height \div 2, 2)}

\* y * stride + x * bpp + c (lines 131-133, 140-142)
Offset(m, x, y, c) == y * Stride(m) + x * bpp + c

\* mutant: all three bytes of a pixel are set to 255
ChannelValue_White(c) == 255

\* the value written at channel c (lines 131-133, 140-142)
ChannelValue(c) == IF c = 2 THEN 255 ELSE 0

\* the writes <<offset, value>> of a loop nest over pixels
Writes(m, pixels) ==
    {<<Offset(m, p[1], p[2], c), ChannelValue(c)>> : p \in pixels, c \in 0..(bpp - 1)}

\* the bytes written so far after the writes of a loop nest
Paint(painted, writes) ==
    [o \in DOMAIN painted \cup {w[1] : w \in writes} |->
        IF \E c \in 0..(bpp - 1) : <<o, ChannelValue(c)>> \in writes
        THEN CHOOSE v \in {ChannelValue(c) : c \in 0..(bpp - 1)} : <<o, v>> \in writes
        ELSE painted[o]]

\* the byte of the buffer at offset o
BufferByte(img, o) ==
    IF o \in DOMAIN img.painted THEN img.painted[o]
    ELSE IF o < img.copied THEN ExportedByte(o)
    ELSE StaleByte

TransformInit ==
    /\ config = [parses |-> TRUE, hasChains |-> TRUE, chainsIsArray |-> TRUE,
                 chainIds |-> ChainIds, hasIFF |-> TRUE]
    /\ StartState
    /\ metadata \in Metadatas
    /\ image = [pc |-> "exported", copied |-> 0, painted |-> <<>>]

\* line 167: memcpy(buffer, data, size)
TransformCopy ==
    /\ image.pc = "exported"
    /\ image' = [image EXCEPT !.pc = "copied", !.copied = FrameBytes(metadata)]
    /\ UNCHANGED <<config, mainVars, registryVars, mutex, queueVars, workerVars, cb,
                   exportVars, bufferVars, historyVars, metadata>>

\* lines 127-135: the vertical bar
DrawVertical ==
    /\ image.pc = "copied"
    /\ image' = [image EXCEPT !.pc = "vertical",
                              !.painted = Paint(@, Writes(metadata, VerticalBar(metadata)))]
    /\ UNCHANGED <<config, mainVars, registryVars, mutex, queueVars, workerVars, cb,
                   exportVars, bufferVars, historyVars, metadata>>

\* lines 136-144: the horizontal bar
DrawHorizontal ==
    /\ image.pc = "vertical"
    /\ image' = [image EXCEPT !.pc = "drawn",
                              !.painted = Paint(@, Writes(metadata, HorizontalBar(metadata)))]
    /\ UNCHANGED <<config, mainVars, registryVars, mutex, queueVars, workerVars, cb,
                   exportVars, bufferVars, historyVars, metadata>>

\* line 146: push_import_buffer forwards the buffer as it is
TransformPush ==
    /\ image.pc = "drawn"
    /\ image' = [image EXCEPT !.pc = "pushed"]
    /\ UNCHANGED <<config, mainVars, registryVars, mutex, queueVars, workerVars, cb,
                   exportVars, bufferVars, historyVars, metadata>>

TransformNext == TransformCopy \/ DrawVertical \/ DrawHorizontal \/ TransformPush

TransformSpec == TransformInit /\ [][TransformNext]_vars

\* ---------------------------------------------------------------- helpers
Range(seq) == {seq[i] : i \in 1..Len(seq)}
IsPrefix(a, b) == Len(a) <= Len(b) /\ \A i \in 1..Len(a) : a[i] = b[i]
Count(cond) == IF cond THEN 1 ELSE 0
RECURSIVE Sum(_, _)
Sum(f, S) == IF S = {} THEN 0
             ELSE LET x == CHOOSE y \in S : TRUE IN f[x] + Sum(f, S \ {x})

\* ------------------------------------------------------------------ claims

\* C1: when process() returns, the queue is empty and every entry that was
\* emplaced before stop_processing was set has been passed to
\* push_import_buffer, in the order of emplacement.
C1_DrainOnShutdown ==
    [][(workerPc # "done" /\ workerPc' = "done") =>
          /\ processing_queue = <<>>
          /\ stopMark.set
          /\ Len(pushed) >= stopMark.enqueued
          /\ SubSeq(pushed, 1, stopMark.enqueued) = SubSeq(enqueued, 1, stopMark.enqueued)]_vars

\* C1 witness: the worker has returned, and entries that were still in the
\* queue (or with the worker) when stop_processing was set have been pushed.
C1_Witness ==
    /\ workerPc = "done"
    /\ stopMark.enqueued >= stopMark.pushed + 2
    /\ Len(pushed) >= stopMark.enqueued

\* C2: the frames pushed are always a prefix of the frames emplaced.
C2_Fifo == IsPrefix(pushed, enqueued)

\* C2 witness: two entries waited in the queue together and both were pushed.
C2_Witness ==
    /\ Len(pushed) >= 2
    /\ stopMark.set /\ stopMark.enqueued >= stopMark.pushed + 2

\* The places a leased buffer can be in.
HeldByCallback(p, b) ==
    cb[p].buffer = b /\ cb[p].pc \in {"copy", "lock", "emplace", "log", "release"}
HeldByWorker(b) == workerEntry.buffer = b /\ workerPc \in {"transform", "push"}
InQueue(b) == Cardinality({i \in 1..Len(processing_queue) : processing_queue[i].buffer = b})
Places(b) ==
    Count(b \in pool) + Count(b \in sink) + Count(HeldByWorker(b)) + InQueue(b)
    + Sum([p \in Producers |-> Count(HeldByCallback(p, b))], Producers)

\* C3: every buffer is in exactly one place (pool, one callback invocation,
\* queue, worker, sink); a callback that writes a buffer (memcpy) and the worker
\* that writes one (crosshair) hold it at that moment, so never both at once.
C3_OneOwner ==
    \A b \in Buffers :
        /\ Places(b) = 1
        /\ \A p \in Producers :
              ~(cb[p].pc = "copy" /\ cb[p].buffer = b
                /\ workerPc = "transform" /\ workerEntry.buffer = b)

\* C3 witness: a callback is about to copy into one buffer while the worker
\* is about to draw into another one.
C3_Witness ==
    \E p \in Producers :
        /\ cb[p].pc = "copy"
        /\ workerPc = "transform" /\ workerEntry.buffer # cb[p].buffer

\* C4 (as claimed): once process() has returned, every frame that a callback
\* invocation had copied into a leased buffer when stop_processing was set,
\* emplaced already or still between its memcpy and its emplace, has been
\* passed to push_import_buffer.
C4_NeverStranded ==
    workerPc = "done" =>
        Range(SubSeq(enqueued, 1, stopMark.enqueued)) \cup stopMark.copied
            \subseteq Range(pushed)

\* C5 (as claimed): once main has set stop_processing and called notify_all
\* (it is at the join), the worker returns and the join completes.
C5_ShutdownTerminates ==
    (mainPc = "join") ~> (workerPc = "done" /\ mainPc \notin {"join"})

\* C6: a callback invocation whose get_import_buffer returned no buffer
\* returns on that step: nothing is emplaced, the mutex is not taken, the
\* condition variable is not notified (a waiting worker stays waiting) and
\* the pool is as before.
C6_BackPressure ==
    [][\A p \in Producers :
          (cb[p].pc = "lease" /\ cb'[p] # cb[p] /\ cb'[p].buffer = nullptr) =>
              /\ cb'[p] = IdleCallback
              /\ processing_queue' = processing_queue
              /\ enqueued' = enqueued
              /\ mutex' = mutex
              /\ workerPc' = workerPc
              /\ pool' = pool]_vars

\* C6 witness: an invocation ended without a buffer while the import chain
\* exists, and the worker is still waiting on the condition variable.
C6_Witness ==
    /\ \E f \in Frames : outcome[f] = "no_buffer"
    /\ workerPc = "waiting"
    /\ enqueued = <<>>

\* C7: with a leased buffer of capacity C and a frame of size S, the callback
\* goes to the error path exactly when C < S; on that path nothing is written
\* into the buffer, the callback emplaces nothing and the buffer is in no
\* entry of the queue, the message logged holds C and S, and the
\* buffer goes back to the pool once, on the step on which the callback
\* returns; when C >= S the frame is copied and then emplaced.
C7_CapacityMismatch ==
    [][\A p \in Producers :
          LET b == cb[p].buffer
              c == BufferSize(cb[p].buffer)
              sz == cb[p].size
          IN  /\ (cb[p].pc = "lease" /\ cb'[p].buffer # nullptr) =>
                    cb'[p].pc = IF BufferSize(cb'[p].buffer) < sz THEN "log" ELSE "copy"
              /\ cb[p].pc \in {"log", "release"} =>
                    /\ c < sz
                    /\ content'[b] = content[b]
                    /\ \A i \in 1..Len(processing_queue') : processing_queue'[i].buffer # b
                    /\ cb'[p] # cb[p] => processing_queue' = processing_queue
                    /\ b \notin pool
              /\ (cb[p].pc = "log" /\ cb'[p] # cb[p]) =>
                    /\ log' = Append(log, [capacity |-> c, size |-> sz])
                    /\ cb'[p].pc = "release"
                    /\ pool' = pool
              /\ (cb[p].pc = "release" /\ cb'[p] # cb[p]) =>
                    /\ pool' = pool \cup {b}
                    /\ cb'[p] = IdleCallback
                    /\ log' = log
              /\ (cb[p].pc = "copy" /\ cb'[p] # cb[p]) =>
                    /\ c >= sz
                    /\ content'[b].frame = cb[p].frame /\ content'[b].bytes = sz
                    /\ cb'[p].pc = "lock"
              /\ (cb[p].pc = "emplace" /\ cb'[p] # cb[p]) =>
                    processing_queue' =
                        Append(processing_queue, [buffer |-> b, frame |-> cb[p].frame])]_vars

\* C7 witness: one invocation dropped its frame for a capacity mismatch and
\* another one, whose buffer had exactly the frame's size, emplaced its frame.
C7_Witness ==
    /\ \E f \in Frames : outcome[f] = "mismatch"
    /\ \E f \in Frames : outcome[f] = "enqueued"
    /\ \E b \in Buffers : content[b].bytes = BufferSize(b)
    /\ log # <<>>

\* main has executed chains.clear() (line 197).
AfterClear ==
    mainPc \in {"finalize", "return"} \/ (mainPc = "exited" /\ exitCode = EXIT_SUCCESS)

C9_MissingChainsStop ==
    ~(ChainIds \subseteq config.chainIds) =>
        /\ workerPc = "not_started"
        /\ ~callbackSet
        /\ ~exporting

\* A configuration that C10 names as invalid.
ConfigRejected(c) ==
    ~c.parses \/ ~c.hasChains \/ ~c.chainsIsArray \/ c.chainIds = {} \/ ~c.hasIFF

\* C10: with an invalid configuration main writes one message to std::cerr
\* and returns EXIT_FAILURE, and in that run iff::initialize is not called, no
\* chain is constructed and the processing thread is not started.
C10_ConfigValidation ==
    ConfigRejected(config) =>
        /\ iffState = "none"
        /\ chains = {} /\ nullChains = {}
        /\ workerPc = "not_started"
        /\ ~callbackSet /\ ~exporting
        /\ mainPc \in {"config", "exited"}
        /\ mainPc = "config" => (cerr = <<>> /\ exitCode = Running)
        /\ mainPc = "exited" =>
              (Len(cerr) = 1 /\ cerr[1] # "" /\ exitCode = EXIT_FAILURE)

\* C10 witness: main has returned for a configuration that parses and has a
\* non-empty chains array, and only lacks the IFF section.
C10_Witness ==
    /\ config.parses /\ config.hasChains /\ config.chainsIsArray
    /\ config.chainIds # {} /\ ~config.hasIFF
    /\ mainPc = "exited" /\ exitCode = EXIT_FAILURE

\* Wherever the code dereferences chains["import"] after a lease succeeded
\* (lines 146, 179), the registry holds the import chain.
ImportChainPresentAtUse ==
    (workerPc = "push" \/ \E p \in Producers : cb[p].pc = "release") => HasChain("import")

\* The same property for the runs whose registry holds both chains: there the
\* wake-up protocol of lines 149-153 and 190-194 loses no notification.
ShutdownTerminatesWithBothChains ==
    (mainPc = "join" /\ ChainIds \subseteq config.chainIds)
        ~> (workerPc = "done" /\ mainPc \notin {"join"})

\* C11 (as claimed): an invocation whose get_import_buffer returned no buffer
\* reports that (iff::log or std::cerr) on the step on which it returns
\* without emplacing.
C11_LeaseFailureReported ==
    [][\A p \in Producers :
          (cb[p].pc = "lease" /\ HasChain("import") /\ cb'[p] = IdleCallback) =>
              (log' # log \/ cerr' # cerr)]_vars

\* C12: every offset the two loops write lies in [0, height * stride), for
\* every width, height and padding of the word, the loop starts wrapping.
C12_TransformInBounds ==
    \A o \in DOMAIN image.painted :
        0 <= o /\ o < metadata.height * Stride(metadata)

\* C12 witness: both loops have run on a frame whose height makes the start
\* of the vertical bar wrap (height / 2 < 100), and the horizontal bar was
\* written.
C12_Witness ==
    /\ image.pc = "drawn"
    /\ metadata.height \div 2 < 100
    /\ metadata.padding > 0
    /\ DOMAIN image.painted # {}

\* The frame of C13: 640x480, 3 bytes per pixel, no padding.
Frame640 == [width |-> 640, height |-> 480, padding |-> 0]

\* The pushed buffer of the 640x480 frame holds 0, 0, 255 in the pixels of
\* region and the bytes of the exported frame everywhere else.
OnlyRegionPainted(region) ==
    (metadata = Frame640 /\ image.pc = "pushed") =>
        \A y \in 0..479 : \A x \in 0..639 : \A c \in 0..2 :
            BufferByte(image, y * 1920 + x * 3 + c) =
                IF <<x, y>> \in region
                THEN (IF c = 2 THEN 255 ELSE 0)
                ELSE ExportedByte(y * 1920 + x * 3 + c)

\* C13 (as claimed): in the pushed buffer of the 640x480 frame every pixel of
\* the central 200x200 region has bytes 0, 0, 255 (red, green, blue) and every
\* byte outside that region is the byte of the exported frame.
C13_CentralRegionBlue == OnlyRegionPainted((220..419) \X (140..339))

\* C13 (amended): in the pushed buffer of the 640x480 frame the pixels of the
\* crosshair, a bar 4 pixels wide and 200 high and a bar 200 wide and 4 high
\* through the centre, have bytes 0, 0, 255, and every other byte, inside
\* the central 200x200 region as outside, is the byte of the exported frame.
C13_CrosshairOnly ==
    OnlyRegionPainted(((318..321) \X (140..339)) \cup ((220..419) \X (238..241)))

\* C13 witness: the 640x480 frame was copied whole, drawn on and pushed.
C13_Witness ==
    /\ metadata = Frame640
    /\ image.pc = "pushed"
    /\ image.copied = 640 * 480 * 3
    /\ DOMAIN image.painted # {}

\* C14: the worker does not hold the mutex while it draws, pushes or is about
\* to re-lock; it holds it only where it tests the queue and the flag, a
\* callback only where it emplaces, main only where it writes the flag: so
\* while the worker draws or pushes the mutex is free or held by a callback
\* or by main, for one emplace or one flag write.
C14_UnlockedWhileTransforming ==
    /\ workerPc \in {"transform", "push", "relock"} => mutex # Worker
    /\ mutex = Worker => workerPc = "top"
    /\ \A p \in Producers : mutex = Callback(p) => cb[p].pc = "emplace"
    /\ mutex = MainThread => mainPc = "set_stop"

\* C14 witness: a callback holds the mutex for its emplace while the worker
\* is between its pop and its push.
C14_Witness ==
    /\ workerPc \in {"transform", "push"}
    /\ \E p \in Producers : mutex = Callback(p) /\ cb[p].pc = "emplace"

\* C15: a callback that is past its memcpy and has not yet emplaced holds a
\* buffer with exactly the size bytes of its frame, and every entry of the
\* queue, as the entry the worker took, names a buffer that holds the whole
\* copy of the entry's frame: no entry is visible before its copy is done.
C15_CopyBeforeEnqueue ==
    /\ \A p \in Producers :
          cb[p].pc \in {"lock", "emplace"} =>
              content[cb[p].buffer] =
                  [frame |-> cb[p].frame, bytes |-> cb[p].size, drawn |-> FALSE]
    /\ \A i \in 1..Len(processing_queue) :
          LET e == processing_queue[i]
          IN  /\ content[e.buffer].frame = e.frame
              /\ content[e.buffer].bytes \in FrameSizes
              /\ ~content[e.buffer].drawn
    /\ workerPc = "transform" =>
          /\ content[workerEntry.buffer].frame = workerEntry.frame
          /\ content[workerEntry.buffer].bytes \in FrameSizes
    /\ \A p \in Producers : \A i \in 1..Len(processing_queue) :
          cb[p].pc = "copy" => processing_queue[i].buffer # cb[p].buffer

\* C15 witness: an entry is in the queue, emplaced by a callback that has not
\* yet notified, while another callback has not yet copied its frame.
C15_Witness ==
    /\ processing_queue # <<>>
    /\ \E p, q \in Producers : cb[p].pc = "notify" /\ cb[q].pc = "copy"

\* C16 (as claimed): once stop_processing is set, the worker draws on and
\* pushes only entries that were in the queue when the flag was set: nothing
\* emplaced after that moment is taken from the queue, drawn on or pushed.
C16_OnlyDrainAfterStop ==
    stopMark.set =>
        /\ Len(pushed) <= stopMark.enqueued
        /\ workerPc \in {"transform", "push"} =>
              workerEntry.frame \in Range(SubSeq(enqueued, 1, stopMark.enqueued))

\* What the loop of lines 115-154 does give: once process() has returned,
\* nothing more is pushed.
NothingPushedAfterReturn ==
    [][workerPc = "done" => (pushed' = pushed /\ workerPc' = "done")]_vars

NoDuplicates(seq) == \A i, j \in 1..Len(seq) : seq[i] = seq[j] => i = j
QueueFrames == [i \in 1..Len(processing_queue) |-> processing_queue[i].frame]
WorkerFrames ==
    IF workerPc \in {"transform", "push"} THEN <<workerEntry.frame>> ELSE <<>>

\* C17: the frames emplaced are, in order and each once, the frames pushed,
\* then the frame the worker took and has not yet pushed, then the frames
\* still in the queue: an entry is popped at most once and its buffer pushed
\* at most once; and the frame of an invocation that releases its buffer
\* (capacity mismatch) was never emplaced, so its buffer is never pushed.
C17_ExactlyOnce ==
    /\ enqueued = pushed \o WorkerFrames \o QueueFrames
    /\ NoDuplicates(enqueued)
    /\ NoDuplicates(pushed)
    /\ \A p \in Producers :
          cb[p].pc \in {"log", "release"} => cb[p].frame \notin Range(enqueued)
    /\ \A f \in Frames :
          outcome[f] \in {"mismatch", "no_buffer"} => f \notin Range(enqueued)

\* C17 witness: one invocation released its buffer, and the entry of another
\* one was popped and pushed.
C17_Witness ==
    /\ \E f \in Frames : outcome[f] = "mismatch"
    /\ pushed # <<>>
    /\ workerPc = "relock"

\* C18: a step that takes an entry from processing_queue is a step of the
\* worker holding the mutex, a step that appends one is a step of a callback
\* holding the mutex, a step that writes stop_processing is a step of main
\* holding the mutex, and the worker holds the mutex on the step on which it
\* tests the queue and the flag; the queue changes in no other way.
C18_LockDiscipline ==
    [][/\ processing_queue' # processing_queue =>
             \/ /\ processing_queue # <<>>
                /\ processing_queue' = Tail(processing_queue)
                /\ mutex = Worker
                /\ workerPc = "top" /\ workerPc' = "transform"
                /\ cb' = cb
             \/ /\ \E p \in Producers :
                      /\ mutex = Callback(p)
                      /\ cb[p].pc = "emplace" /\ cb'[p].pc = "notify"
                      /\ processing_queue' =
                            Append(processing_queue,
                                   [buffer |-> cb[p].buffer, frame |-> cb[p].frame])
                /\ workerPc' = workerPc
       /\ stop_processing' # stop_processing =>
             /\ mutex = MainThread
             /\ mainPc = "set_stop" /\ mainPc' = "notify"
       /\ (workerPc = "top" /\ workerPc' # "top") => mutex = Worker]_vars

\* C18 witness: the queue was appended to and popped from, and main is about
\* to write the flag while a callback waits for the mutex.
C18_Witness ==
    /\ mainPc = "set_stop" /\ mutex = MainThread
    /\ pushed # <<>>
    /\ \E p \in Producers : cb[p].pc = "lock"

\* A step on which the invocation of producer p drops its frame: it returns
\* without a buffer, or it finds the buffer too small, or it logs that, or the
\* process ends while it is about to log, or it releases the buffer and
\* returns.
DropStep(p) ==
    \/ cb[p].pc = "lease" /\ cb'[p] = IdleCallback
    \/ cb[p].pc = "lease" /\ cb'[p].pc = "log"
    \/ cb[p].pc = "log" /\ cb'[p] # cb[p]
    \/ cb[p].pc = "log" /\ exitCode' # exitCode
    \/ cb[p].pc = "release" /\ cb'[p] # cb[p]

\* C19: a step on which a callback invocation drops its frame leaves the
\* queue, the flag, the mutex, the worker, the main thread and the other
\* invocations as they are, and the process running.
C19_DropIsLocal ==
    [][\A p \in Producers :
          DropStep(p) =>
              /\ processing_queue' = processing_queue
              /\ stop_processing' = stop_processing
              /\ mutex' = mutex
              /\ workerPc' = workerPc /\ workerEntry' = workerEntry
              /\ mainPc' = mainPc
              /\ exitCode' = exitCode
              /\ \A q \in Producers \ {p} : cb'[q] = cb[q]
              /\ enqueued' = enqueued /\ pushed' = pushed]_vars

\* C19 witness: the first frame was dropped, and the second frame, exported
\* later, was emplaced, drawn on and pushed by the worker.
C19_Witness ==
    /\ outcome[1] \in {"no_buffer", "mismatch"}
    /\ pushed = <<2>>
    /\ exitCode = Running

\* C20 (as claimed): under fair scheduling every frame that was emplaced is
\* eventually pushed.
C20_NoLostWakeup ==
    \A f \in Frames : (f \in Range(enqueued)) ~> (f \in Range(pushed))

\* What the wake-up protocol of lines 149-153 and 170-172 does give: a worker
\* that waits while the queue holds an entry is woken, and a frame emplaced
\* while process() has not returned is pushed.
WaitingWorkerIsWoken ==
    (workerPc = "waiting" /\ processing_queue # <<>>) ~> (workerPc # "waiting")
EmplacedBeforeReturnIsPushed ==
    \A f \in Frames :
        (f \in Range(enqueued) /\ workerPc # "done") ~> (f \in Range(pushed))

====
